---------------------------- MODULE Spec2Model ----------------------------
(***************************************************************************)
(* TV guide (src/app.py): the XMLTV pipeline.                              *)
(*                                                                         *)
(*   parse_xmltv_dt        timestamp attribute -> aware instant in Vienna  *)
(*   parse_xmltv_programs  document bytes -> list of programme records     *)
(*   load_epg_all          fetch + parse every EPG source, deduplicate     *)
(*   tab_ent               the 24 h window of the entertainment tab        *)
(*                                                                         *)
(* Strings the code inspects character by character (timestamps, tags,     *)
(* element text) are sequences of one-character strings.  Instants are     *)
(* seconds since 1970-01-01T00:00:00Z.                                     *)
(***************************************************************************)
EXTENDS Integers, Sequences, FiniteSets, TLC

VARIABLES
    dt_pc, dt_in, dt_out,          \* one call of parse_xmltv_dt
    p_pc, p_in, p_res,             \* one call of parse_xmltv_programs
    pc, idx, fetched, requested,   \* tab_ent: position, loop index; the network's answers; the urls asked
    contrib, warnings, epg_df,     \* load_epg_all: rows per source, st.warning log, returned frame
    now, epg_24, ui_error          \* tab_ent: the clock reading, the window's result, st.error shown

dtvars == <<dt_pc, dt_in, dt_out>>
pvars == <<p_pc, p_in, p_res>>
appvars == <<pc, idx, fetched, requested, contrib, warnings, epg_df, now, epg_24, ui_error>>
vars == <<dtvars, pvars, appvars>>

---------------------------------------------------------------------------
(* Characters and strings *)

Digits == {"0", "1", "2", "3", "4", "5", "6", "7", "8", "9"}
D19 == Digits \ {"0"}

DigitVal == [c \in Digits |->
    CASE c = "0" -> 0 [] c = "1" -> 1 [] c = "2" -> 2 [] c = "3" -> 3 [] c = "4" -> 4
      [] c = "5" -> 5 [] c = "6" -> 6 [] c = "7" -> 7 [] c = "8" -> 8 [] c = "9" -> 9]

\* str.strip() and the whitespace it removes
Whitespace == {" ", "\t", "\n"}

RECURSIVE LStrip(_)
LStrip(s) == IF s # <<>> /\ Head(s) \in Whitespace THEN LStrip(Tail(s)) ELSE s

RECURSIVE RStrip(_)
RStrip(s) ==
    IF s # <<>> /\ s[Len(s)] \in Whitespace THEN RStrip(SubSeq(s, 1, Len(s) - 1)) ELSE s

Strip(s) == RStrip(LStrip(s))

\* s[:n]
Prefix(s, n) == SubSeq(s, 1, IF Len(s) < n THEN Len(s) ELSE n)

\* s[n:]
Suffix(s, n) == SubSeq(s, n + 1, Len(s))

\* c in s
Contains(s, c) == \E i \in 1..Len(s) : s[i] = c

\* the character at 1-based position p, "" past the end
At(s, p) == IF p >= 1 /\ p <= Len(s) THEN s[p] ELSE ""

---------------------------------------------------------------------------
(* datetime.strptime(core, "%Y%m%d%H%M%S")                                 *)
(*                                                                         *)
(* The format compiles to the regular expression                           *)
(*   (\d\d\d\d)(1[0-2]|0[1-9]|[1-9])(3[0-1]|[1-2]\d|0[1-9]|[1-9]| [1-9])    *)
(*   (2[0-3]|[0-1]\d|\d)([0-5]\d|\d)(6[0-1]|[0-5]\d|\d)                     *)
(* which is matched at the start of the string by a backtracking matcher   *)
(* (alternatives tried left to right); text left after the match is the    *)
(* error "unconverted data remains".  An alternative is a sequence of      *)
(* character classes, a field a sequence of alternatives.                  *)

FormatRegex == <<
    << <<Digits, Digits, Digits, Digits>> >>,
    << <<{"1"}, {"0", "1", "2"}>>, <<{"0"}, D19>>, <<D19>> >>,
    << <<{"3"}, {"0", "1"}>>, <<{"1", "2"}, Digits>>, <<{"0"}, D19>>, <<D19>>, <<{" "}, D19>> >>,
    << <<{"2"}, {"0", "1", "2", "3"}>>, <<{"0", "1"}, Digits>>, <<Digits>> >>,
    << <<{"0", "1", "2", "3", "4", "5"}, Digits>>, <<Digits>> >>,
    << <<{"6"}, {"0", "1"}>>, <<{"0", "1", "2", "3", "4", "5"}, Digits>>, <<Digits>> >>
>>

AltMatches(alt, s, p) == \A i \in 1..Len(alt) : At(s, p + i - 1) \in alt[i]

NoMatch == [ok |-> FALSE, lens |-> <<>>]

\* The first way, in the matcher's order, to match fields f.. at position p:
\* the lengths of the groups.
RECURSIVE MatchFrom(_, _, _)
RECURSIVE TryAlts(_, _, _, _)
MatchFrom(s, f, p) ==
    IF f > Len(FormatRegex) THEN [ok |-> TRUE, lens |-> <<>>] ELSE TryAlts(s, f, p, 1)

TryAlts(s, f, p, k) ==
    IF k > Len(FormatRegex[f]) THEN NoMatch
    ELSE LET alt == FormatRegex[f][k] IN
         IF AltMatches(alt, s, p)
         THEN LET r == MatchFrom(s, f + 1, p + Len(alt)) IN
              IF r.ok THEN [ok |-> TRUE, lens |-> <<Len(alt)>> \o r.lens]
              ELSE TryAlts(s, f, p, k + 1)
         ELSE TryAlts(s, f, p, k + 1)

\* int(group): surrounding whitespace is ignored
RECURSIVE IntOf(_)
IntOf(s) ==
    IF s = <<>> THEN 0
    ELSE IF s[Len(s)] \in Whitespace THEN IntOf(SubSeq(s, 1, Len(s) - 1))
    ELSE IF Head(s) \in Whitespace THEN IntOf(Tail(s))
    ELSE 10 * IntOf(SubSeq(s, 1, Len(s) - 1)) + DigitVal[s[Len(s)]]

IsLeap(y) == (y % 4 = 0 /\ y % 100 # 0) \/ y % 400 = 0

DaysInMonth(y, m) ==
    IF m = 2 THEN (IF IsLeap(y) THEN 29 ELSE 28)
    ELSE IF m \in {4, 6, 9, 11} THEN 30 ELSE 31

NoneNaive == [ok |-> FALSE, Y |-> 0, m |-> 0, d |-> 0, H |-> 0, M |-> 0, S |-> 0]

\* group g of the match, given the group lengths
RECURSIVE SumTo(_, _)
SumTo(lens, n) == IF n = 0 THEN 0 ELSE lens[n] + SumTo(lens, n - 1)

Group(s, lens, g) == SubSeq(s, SumTo(lens, g - 1) + 1, SumTo(lens, g))

\* The datetime of a match r of s, or the ValueError (ok = FALSE): no match,
\* unconverted data, or a field the datetime constructor rejects.
FromMatch(s, r) ==
    IF ~r.ok THEN NoneNaive
    ELSE IF SumTo(r.lens, Len(r.lens)) # Len(s) THEN NoneNaive
    ELSE LET f == [g \in 1..Len(FormatRegex) |-> IntOf(Group(s, r.lens, g))]
         IN IF f[1] < 1 \/ f[3] > DaysInMonth(f[1], f[2]) \/ f[6] > 59 THEN NoneNaive
            ELSE [ok |-> TRUE, Y |-> f[1], m |-> f[2], d |-> f[3],
                  H |-> f[4], M |-> f[5], S |-> f[6]]

strptime(s) == FromMatch(s, MatchFrom(s, 1, 1))

---------------------------------------------------------------------------
(* Instants and the target zone *)

\* days from 1970-01-01 to the civil date y-m-d (proleptic Gregorian)
DaysFromCivil(y, m, d) ==
    LET yy  == IF m <= 2 THEN y - 1 ELSE y
        era == yy \div 400
        yoe == yy - era * 400
        mp  == (m + 9) % 12
        doy == (153 * mp + 2) \div 5 + d - 1
        doe == yoe * 365 + yoe \div 4 - yoe \div 100 + doy
    IN era * 146097 + doe - 719468

\* the naive datetime read as UTC (pytz.utc.localize): seconds since the epoch
UtcSeconds(n) == DaysFromCivil(n.Y, n.m, n.d) * 86400 + n.H * 3600 + n.M * 60 + n.S

\* the day of March or October (31 days each) of year y that is its last Sunday
LastSunday(y, m) == 31 - ((DaysFromCivil(y, m, 31) + 4) % 7)

\* TARGET_TZ = Europe/Vienna: UTC+2 from the last Sunday of March 01:00 UTC to
\* the last Sunday of October 01:00 UTC, UTC+1 otherwise (the rule since 1996).
ViennaOffset(y, utc) ==
    LET dstStart == DaysFromCivil(y, 3, LastSunday(y, 3)) * 86400 + 3600
        dstEnd   == DaysFromCivil(y, 10, LastSunday(y, 10)) * 86400 + 3600
    IN IF dstStart <= utc /\ utc < dstEnd THEN 7200 ELSE 3600

\* An aware datetime: the wall clock (as seconds) and its UTC offset.
NoneDt == [ok |-> FALSE, local |-> 0, off |-> 0]

\* dt.astimezone(TARGET_TZ) of the aware UTC datetime at instant utc in year y
astimezone(y, utc) ==
    LET off == ViennaOffset(y, utc) IN [ok |-> TRUE, local |-> utc + off, off |-> off]

\* the instant an aware datetime denotes (what comparisons and equality use)
ToUtc(dt) == dt.local - dt.off

---------------------------------------------------------------------------
(* parse_xmltv_dt *)

\* s[:14]: the width of yyyymmddHHMMSS
CoreLen == 14

\* "+0200" read as an offset in seconds, applied to the naive instant: what a
\* parser that honoured the suffix would return (the code does not).
LocalizeWithOffset(n, s) ==
    LET tailRaw == Strip(Suffix(s, CoreLen))
        sign == IF tailRaw # <<>> /\ Head(tailRaw) = "-" THEN -1 ELSE 1
        hh == IF Len(tailRaw) >= 5 THEN IntOf(SubSeq(tailRaw, 2, 3)) ELSE 0
        mm == IF Len(tailRaw) >= 5 THEN IntOf(SubSeq(tailRaw, 4, 5)) ELSE 0
    IN UtcSeconds(n) - sign * (hh * 3600 + mm * 60)

\* Lines 128-133: with or without an offset suffix the naive datetime is
\* localized as UTC.
Localize(n, s) ==
    IF Contains(s, "+") \/ Contains(Suffix(s, CoreLen), "-")
    THEN UtcSeconds(n)
    ELSE UtcSeconds(n)

\* Lines 125-137 for the stripped string s and the outcome n of strptime
Converted(s, n) == IF ~n.ok THEN NoneDt ELSE astimezone(n.Y, Localize(n, s))

\* Lines 122-126 for a non-empty string: strip, cut, strptime
ParseStripped(s) == Converted(s, strptime(Prefix(s, CoreLen)))

parse_xmltv_dt(raw) == IF raw = <<>> THEN NoneDt ELSE ParseStripped(Strip(raw))

---------------------------------------------------------------------------
(* Elements (xml.etree.ElementTree): tag in Clark notation, attributes,    *)
(* text, children.  An absent text is the empty sequence.                  *)

TITLE == <<"t", "i", "t", "l", "e">>
DESC == <<"d", "e", "s", "c">>
PROGRAMME == <<"p", "r", "o", "g", "r", "a", "m", "m", "e">>
TV == <<"t", "v">>

Elem(tag, attrib, text, children) ==
    [tag |-> tag, attrib |-> attrib, text |-> text, children |-> children]

UpperToLower == [c \in {"A", "B", "C", "D", "E", "F", "G", "H", "I", "J", "K", "L", "M",
                        "N", "O", "P", "Q", "R", "S", "T", "U", "V", "W", "X", "Y", "Z"} |->
    CASE c = "A" -> "a" [] c = "B" -> "b" [] c = "C" -> "c" [] c = "D" -> "d"
      [] c = "E" -> "e" [] c = "F" -> "f" [] c = "G" -> "g" [] c = "H" -> "h"
      [] c = "I" -> "i" [] c = "J" -> "j" [] c = "K" -> "k" [] c = "L" -> "l"
      [] c = "M" -> "m" [] c = "N" -> "n" [] c = "O" -> "o" [] c = "P" -> "p"
      [] c = "Q" -> "q" [] c = "R" -> "r" [] c = "S" -> "s" [] c = "T" -> "t"
      [] c = "U" -> "u" [] c = "V" -> "v" [] c = "W" -> "w" [] c = "X" -> "x"
      [] c = "Y" -> "y" [] c = "Z" -> "z"]

\* str.lower()
Lower(s) == [i \in 1..Len(s) |-> IF s[i] \in DOMAIN UpperToLower THEN UpperToLower[s[i]] ELSE s[i]]

\* str.endswith(suf)
EndsWith(s, suf) ==
    Len(s) >= Len(suf) /\ SubSeq(s, Len(s) - Len(suf) + 1, Len(s)) = suf

\* index of the first TRUE of a sequence of booleans, 0 if none
FirstTrue(flags) ==
    IF \E i \in 1..Len(flags) : flags[i]
    THEN CHOOSE i \in 1..Len(flags) : flags[i] /\ \A j \in 1..(i - 1) : ~flags[j]
    ELSE 0

\* element.find(name): the first direct child whose tag is exactly name
Find(e, name) == FirstTrue([i \in 1..Len(e.children) |-> e.children[i].tag = name])

\* for child in prog: if child.tag.lower().endswith(name): break
FindTolerant(e, name) ==
    FirstTrue([i \in 1..Len(e.children) |-> EndsWith(Lower(e.children[i].tag), name)])

\* the tolerant scan alone, without find(name) before it
ChildTextScanOnly(prog, name) ==
    LET t == FindTolerant(prog, name)
    IN IF t # 0 /\ prog.children[t].text # <<>> THEN Strip(prog.children[t].text) ELSE <<>>

\* Lines 99-107 and 109-116: find(name), else the tolerant scan; the
\* stripped text of the child found, "" when none or when its text is empty.
ChildText(prog, name) ==
    LET exact == Find(prog, name)
        t == IF exact # 0 THEN exact ELSE FindTolerant(prog, name)
    IN IF t # 0 /\ prog.children[t].text # <<>> THEN Strip(prog.children[t].text) ELSE <<>>

\* attrib.get(k1) or attrib.get(k2) or ""
AttrOr(attrib, k1, k2) ==
    IF k1 \in DOMAIN attrib /\ attrib[k1] # <<>> THEN attrib[k1]
    ELSE IF k2 \in DOMAIN attrib /\ attrib[k2] # <<>> THEN attrib[k2]
    ELSE <<>>

\* every element below e, in document order
RECURSIVE Descendants(_)
RECURSIVE DescendantsOfList(_)
Descendants(e) == DescendantsOfList(e.children)

DescendantsOfList(cs) ==
    IF cs = <<>> THEN <<>>
    ELSE <<Head(cs)>> \o Descendants(Head(cs)) \o DescendantsOfList(Tail(cs))

\* root.findall('.//programme')
FindAllProgramme(root) == SelectSeq(Descendants(root), LAMBDA e : e.tag = PROGRAMME)

---------------------------------------------------------------------------
(* Document bytes and ET.fromstring                                        *)
(*                                                                         *)
(* Bytes are None, b"", a well-formed markup document (its tree; a text or *)
(* attribute value may hold a byte that is not valid UTF-8), bytes that    *)
(* are no markup at all, or a gzip stream wrapping a document.             *)

BadByte == "<FF>"

NoAttrs == [k \in {} |-> <<>>]
EmptyRoot == Elem(TV, NoAttrs, <<>>, <<>>)

NoneBytes == [kind |-> "none", root |-> EmptyRoot]
EmptyBytes == [kind |-> "empty", root |-> EmptyRoot]
JunkBytes == [kind |-> "junk", root |-> EmptyRoot]
XmlBytes(root) == [kind |-> "xml", root |-> root]
GzipBytes(root) == [kind |-> "gzip", root |-> root]

\* not xml_bytes
Falsy(b) == b.kind \in {"none", "empty"}

RECURSIVE HasBad(_)
HasBad(e) ==
    \/ Contains(e.text, BadByte)
    \/ \E k \in DOMAIN e.attrib : Contains(e.attrib[k], BadByte)
    \/ \E i \in 1..Len(e.children) : HasBad(e.children[i])

DropBad(s) == SelectSeq(s, LAMBDA c : c # BadByte)

RECURSIVE RemoveBad(_)
RemoveBad(e) ==
    [tag |-> e.tag,
     attrib |-> [k \in DOMAIN e.attrib |-> DropBad(e.attrib[k])],
     text |-> DropBad(e.text),
     children |-> [i \in 1..Len(e.children) |-> RemoveBad(e.children[i])]]

\* xml_bytes.decode('utf-8', errors='ignore'): undecodable bytes are dropped
Decode(b) == [kind |-> b.kind, root |-> RemoveBad(b.root)]

\* ET.fromstring: the root, or the ParseError (ok = FALSE) for what is not
\* well-formed markup in its encoding
ET_fromstring(b) ==
    IF b.kind = "xml" /\ ~HasBad(b.root) THEN [ok |-> TRUE, root |-> b.root]
    ELSE [ok |-> FALSE, root |-> EmptyRoot]

---------------------------------------------------------------------------
(* parse_xmltv_programs *)

\* the rule of line 142 inverted: a record needs a start only
AdmittedStartOnly(start_dt, stop_dt) == start_dt.ok

\* Lines 142-144: an entry without start or without stop is skipped.
Admitted(start_dt, stop_dt) == ~(~start_dt.ok \/ ~stop_dt.ok)

\* Lines 139-152: the record made of the parsed start and stop dts[1], dts[2]
\* (ok = FALSE: the element is skipped).
RowOf(prog, dts) ==
    [ok |-> Admitted(dts[1], dts[2]),
     row |-> [title |-> ChildText(prog, TITLE), description |-> ChildText(prog, DESC),
              channel |-> AttrOr(prog.attrib, "channel", "channel_id"),
              start |-> dts[1], end |-> dts[2]]]

\* Lines 92-93: start_raw and stop_raw, with the from/to fallback
RawStamps(prog) == <<AttrOr(prog.attrib, "start", "from"), AttrOr(prog.attrib, "stop", "to")>>

\* Lines 92-152, one iteration of the loop
ProgRow(prog) == RowOf(prog, [i \in 1..2 |-> parse_xmltv_dt(RawStamps(prog)[i])])

\* out.append unless the element is skipped
Appended(r) == IF r.ok THEN <<r.row>> ELSE <<>>

\* the loop of lines 90-155 over the elements found
RECURSIVE CollectRows(_)
CollectRows(progs) ==
    IF progs = <<>> THEN <<>>
    ELSE Appended(ProgRow(Head(progs))) \o CollectRows(Tail(progs))

ParseResult(out, warns, attempts, raised) ==
    [out |-> out, warnings |-> warns, attempts |-> attempts, raised |-> raised]

Tried(ok, root, attempts, raised) ==
    [ok |-> ok, root |-> root, attempts |-> attempts, raised |-> raised]

\* the outcome of the second ET.fromstring, after the first failed
Second(again) == Tried(again.ok, again.root, <<"direct", "permissive">>, FALSE)

\* lines 78-80 without the handler: the ParseError of the direct parse escapes
FirstOnly(xml_bytes, direct) ==
    IF direct.ok THEN Tried(TRUE, direct.root, <<"direct">>, FALSE)
    ELSE Tried(FALSE, EmptyRoot, <<"direct">>, TRUE)

\* Lines 78-84: the direct parse, and the permissive one when it failed
First(xml_bytes, direct) ==
    IF direct.ok THEN Tried(TRUE, direct.root, <<"direct">>, FALSE)
    ELSE Second(ET_fromstring(Decode(xml_bytes)))

\* Lines 78-87: the root, from the bytes or else from their permissive
\* decoding, with the parses attempted in order.
ParseRoot(xml_bytes) == First(xml_bytes, ET_fromstring(xml_bytes))

\* Lines 86-87 and 90-157 for the outcome t of the parses
RowsOf(t) ==
    IF t.raised THEN ParseResult(<<>>, <<>>, t.attempts, TRUE)
    ELSE IF ~t.ok THEN ParseResult(<<>>, <<"XML parsing failed.">>, t.attempts, FALSE)
    ELSE ParseResult(CollectRows(FindAllProgramme(t.root)), <<>>, t.attempts, FALSE)

\* parse_xmltv_programs: the records, the warnings given to st.warning, the
\* parses attempted in order, and whether an exception left the function.
parse_xmltv_programs(xml_bytes) ==
    IF Falsy(xml_bytes) THEN ParseResult(<<>>, <<>>, <<>>, FALSE)
    ELSE RowsOf(ParseRoot(xml_bytes))

---------------------------------------------------------------------------
(* safe_request_bytes and load_epg_all *)

EPG_SOURCES == <<"guides/de.xml", "guides/uk.xml", "guides/us.xml">>

\* What the network answers to requests.get + raise_for_status: the body, or
\* the exception raised (connection error, non-success status, timeout).
Answer(content) == [ok |-> TRUE, cause |-> "", content |-> content]
Failure(cause) == [ok |-> FALSE, cause |-> cause, content |-> NoneBytes]

Fetched(ret, warns, raised) == [ret |-> ret, warnings |-> warns, raised |-> raised]

\* safe_request_bytes without its try: the exception of requests escapes
request_bytes_unsafe(url, resp) ==
    IF resp.ok THEN Fetched(resp.content, <<>>, FALSE)
    ELSE Fetched(NoneBytes, <<>>, TRUE)

\* Lines 58-65: r.content, or None after a warning.
safe_request_bytes(url, resp) ==
    IF resp.ok THEN Fetched(resp.content, <<>>, FALSE)
    ELSE Fetched(NoneBytes, << <<"EPG download failed", url, resp.cause>> >>, FALSE)

Columns == <<"title", "description", "channel", "start", "end">>

\* a DataFrame: its columns and its rows in order
Frame(rs) == [columns |-> Columns, rows |-> rs]

SameKey(a, b) ==
    a.title = b.title /\ a.channel = b.channel /\ ToUtc(a.start) = ToUtc(b.start)

\* drop_duplicates() with no subset: only rows equal in every column are merged
DropDuplicatesAllColumns(rs) ==
    LET keep == {i \in 1..Len(rs) : \A j \in 1..(i - 1) :
                    ~(SameKey(rs[i], rs[j]) /\ rs[i].description = rs[j].description
                        /\ ToUtc(rs[i].end) = ToUtc(rs[j].end))}
        F[i \in 0..Len(rs)] ==
            IF i = 0 THEN <<>> ELSE IF i \in keep THEN Append(F[i - 1], rs[i]) ELSE F[i - 1]
    IN F[Len(rs)]

\* df.drop_duplicates(subset=["title","channel","start"]): the first row of
\* every key is kept, in order
DropDuplicates(rs) ==
    LET keep == {i \in 1..Len(rs) : \A j \in 1..(i - 1) : ~SameKey(rs[i], rs[j])}
        F[i \in 0..Len(rs)] ==
            IF i = 0 THEN <<>> ELSE IF i \in keep THEN Append(F[i - 1], rs[i]) ELSE F[i - 1]
    IN F[Len(rs)]

RECURSIVE Flatten(_)
Flatten(ss) == IF ss = <<>> THEN <<>> ELSE Head(ss) \o Flatten(Tail(ss))

\* Lines 172-178: the frame load_epg_all returns for the rows collected
LoadResult(rs) == IF rs = <<>> THEN Frame(<<>>) ELSE Frame(DropDuplicates(rs))

---------------------------------------------------------------------------
(* tab_ent: the window of the next 24 hours *)

HorizonHours == 24

\* now + timedelta(hours=24): the wall clock moves, the offset stays
PlusHours(dt, h) == [dt EXCEPT !.local = @ + h * 3600]

\* the mask with the upper end open
InWindowOpenEnd(start, t) ==
    ToUtc(start) >= ToUtc(t) /\ ToUtc(start) < ToUtc(PlusHours(t, HorizonHours))

\* Lines 289-296: (start >= now) & (start <= end), compared as instants
InWindow(start, t) ==
    ToUtc(start) >= ToUtc(t) /\ ToUtc(start) <= ToUtc(PlusHours(t, HorizonHours))

\* epg_df.loc[mask]
Window(df, t) == Frame(SelectSeq(df.rows, LAMBDA r : InWindow(r.start, t)))

---------------------------------------------------------------------------
(* Timestamp attribute values fed to the parser *)

\* the year the sample timestamps lie in
BaseYear == 2025

DigitChar == <<"0", "1", "2", "3", "4", "5", "6", "7", "8", "9">>
TwoDigits(n) == <<DigitChar[((n \div 10) % 10) + 1], DigitChar[(n % 10) + 1]>>
FourDigits(n) == TwoDigits(n \div 100) \o TwoDigits(n % 100)

Naive(y, mo, d, h, mi, se) ==
    [ok |-> TRUE, Y |-> y, m |-> mo, d |-> d, H |-> h, M |-> mi, S |-> se]

\* yyyymmddHHMMSS of a naive datetime
Core(n) ==
    FourDigits(n.Y) \o TwoDigits(n.m) \o TwoDigits(n.d)
        \o TwoDigits(n.H) \o TwoDigits(n.M) \o TwoDigits(n.S)

\* Calendar dates and times of day: winter, summer, and both days on which
\* the zone's offset changes (at 01:00 UTC).
SampleDates == {<<1, 1>>, <<3, LastSunday(BaseYear, 3)>>, <<6, 1>>,
                <<10, LastSunday(BaseYear, 10)>>, <<12, 31>>}
SampleTimes == {<<0, 0, 0>>, <<0, 59, 59>>, <<1, 0, 0>>, <<18, 0, 0>>, <<23, 59, 59>>}

ValidNaive == {Naive(BaseYear, md[1], md[2], t[1], t[2], t[3]) : md \in SampleDates, t \in SampleTimes}

\* what may follow the 14 digits: nothing, or a UTC offset
OffsetSuffixes == {<<>>, <<" ", "+", "0", "2", "0", "0">>, <<" ", "-", "0", "5", "0", "0">>,
                   <<"+", "0", "0", "0", "0">>, <<" ", "+", "0", "0", "0", "0">>}

WellFormedStamps == {Core(n) \o suf : n \in ValidNaive, suf \in OffsetSuffixes}

\* truncated stamps: every proper prefix of three cores, alone and with a suffix
TruncatedFrom == {Naive(BaseYear, 6, 1, 18, 0, 0), Naive(BaseYear, 11, 11, 11, 11, 11),
                  Naive(BaseYear, 12, 31, 23, 59, 59)}
TruncatedStamps ==
    {Prefix(Core(n), k) \o suf : n \in TruncatedFrom, k \in 0..(CoreLen - 1),
                                 suf \in {<<>>, <<" ", "+", "0", "2", "0", "0">>}}

\* 14 characters that are no date: month 13, 30 February, second 60, hour 25,
\* year 0, a letter, a blank month; and stamps with surrounding blanks
OddStamps == {
    FourDigits(BaseYear) \o <<"1", "3", "0", "1", "1", "8", "0", "0", "0", "0">>,
    FourDigits(BaseYear) \o <<"0", "2", "3", "0", "1", "8", "0", "0", "0", "0">>,
    FourDigits(BaseYear) \o <<"0", "6", "0", "1", "1", "8", "0", "0", "6", "0">>,
    FourDigits(BaseYear) \o <<"0", "6", "0", "1", "2", "5", "0", "0", "0", "0">>,
    <<"0", "0", "0", "0", "0", "1", "0", "1", "0", "0", "0", "0", "0", "0">>,
    FourDigits(BaseYear) \o <<"0", "6", "0", "1", "1", "8", "0", "0", "0", "x">>,
    FourDigits(BaseYear) \o <<" ", "6", "0", "1", "1", "8", "0", "0", "0", "0">>,
    FourDigits(BaseYear) \o <<"0", "6", " ", "1", "1", "8", "0", "0", "0", "0">>,
    <<" ">> \o Core(Naive(BaseYear, 6, 1, 18, 0, 0)) \o <<" ">>,
    <<" ", " ">>,
    <<"n", "o", "w">> }

DtInputs == WellFormedStamps \cup TruncatedStamps \cup OddStamps

---------------------------------------------------------------------------
(* Documents fed to parse_xmltv_programs *)

\* most top-level items of a generated multi-item document
MaxItems == 2

SUBTITLE == <<"s", "u", "b", "-">> \o TITLE
CATEGORY == <<"c", "a", "t", "e", "g", "o", "r", "y">>
GROUP == <<"g", "r", "o", "u", "p">>
NS == <<"{", "u", "r", "n", ":", "x", "}">>
ARD == <<"A", "R", "D">>
ZDF == <<"Z", "D", "F">>

Stamp(mo, d, h) == Core(Naive(BaseYear, mo, d, h, 0, 0))
Plus2 == <<" ", "+", "0", "2", "0", "0">>

Leaf(tag, text) == Elem(tag, NoAttrs, text, <<>>)

\* start/stop/channel attributes of a programme element: complete, under the
\* alternate names, with start or stop missing, truncated to 13, 12 and 8
\* characters, with an empty start beside a from, and with offset suffixes
AttrVariants == {
    [start |-> Stamp(6, 1, 18), stop |-> Stamp(6, 1, 20), channel |-> ARD],
    [from |-> Stamp(6, 1, 18), to |-> Stamp(6, 1, 20), channel_id |-> ARD],
    [start |-> Stamp(6, 1, 18), channel |-> ARD],
    [stop |-> Stamp(6, 1, 20), channel |-> ARD],
    [start |-> Prefix(Stamp(6, 1, 18), 13), stop |-> Stamp(6, 1, 20), channel |-> ARD],
    [start |-> Stamp(6, 1, 18), stop |-> Prefix(Stamp(6, 1, 20), 12), channel |-> ARD],
    [start |-> Prefix(Stamp(6, 1, 18), 8), stop |-> Stamp(6, 1, 20), channel |-> ARD],
    [start |-> <<>>, from |-> Stamp(6, 2, 18), stop |-> Stamp(6, 2, 20), channel |-> ZDF],
    [start |-> Stamp(12, 31, 23) \o Plus2, stop |-> Stamp(12, 31, 22) \o Plus2] }

\* children of a programme element
ChildVariants == {
    << Leaf(TITLE, <<"T", "a", "g">>) >>,
    << Leaf(SUBTITLE, <<"S", "u", "b">>), Leaf(TITLE, <<" ", "N", "e", "w", "s", "\n">>) >>,
    << Leaf(NS \o <<"T", "i", "t", "l", "e">>, <<"N", "s">>), Leaf(NS \o <<"D", "E", "S", "C">>, <<"D", " ">>) >>,
    << >>,
    << Leaf(TITLE, <<>>), Leaf(NS \o TITLE, <<"X">>) >>,
    << Leaf(DESC, <<"D">>), Leaf(TITLE, <<"T", BadByte, "a">>) >>,
    << Leaf(SUBTITLE, <<"S", "u", "b">>), Leaf(NS \o TITLE, <<"N", "s">>) >>,
    << Leaf(CATEGORY, <<"c">>), Leaf(TITLE, <<" ", " ">>), Leaf(TITLE, <<"2">>), Leaf(DESC, <<>>) >> }

ProgVariants == {Elem(PROGRAMME, a, <<>>, k) : a \in AttrVariants, k \in ChildVariants}

GoodProg == Elem(PROGRAMME, [start |-> Stamp(1, 1, 0), stop |-> Stamp(1, 1, 1), channel |-> ZDF],
                 <<>>, << Leaf(TITLE, <<"O", "u", "t">>) >>)

\* where a programme element sits: under the root, under one or two grouping
\* elements, inside another programme element, or with a namespace on its tag
Placements(p) == {
    p,
    Elem(GROUP, NoAttrs, <<>>, <<p>>),
    Elem(GROUP, NoAttrs, <<>>, << Elem(GROUP, NoAttrs, <<>>, <<p>>) >>),
    [GoodProg EXCEPT !.children = @ \o <<p>>],
    [p EXCEPT !.tag = NS \o PROGRAMME] }

SingleItemRoots == {Elem(TV, NoAttrs, <<>>, <<item>>) : item \in UNION {Placements(p) : p \in ProgVariants}}

\* items of the multi-item documents: a complete entry, one differing from it
\* in the description only, one without stop, and a complete entry a day later
ItemTag ==
    Elem(PROGRAMME, [start |-> Stamp(6, 1, 18), stop |-> Stamp(6, 1, 20), channel |-> ARD],
         <<>>, << Leaf(TITLE, <<"T", "a", "g">>) >>)
ItemTagDesc ==
    Elem(PROGRAMME, [start |-> Stamp(6, 1, 18) \o Plus2, stop |-> Stamp(6, 1, 20), channel |-> ARD],
         <<>>, << Leaf(TITLE, <<"T", "a", "g">>), Leaf(DESC, <<"D">>) >>)
ItemNoStop ==
    Elem(PROGRAMME, [start |-> Stamp(6, 1, 19), channel |-> ARD],
         <<>>, << Leaf(TITLE, <<"T", "a", "g">>) >>)
ItemNext ==
    Elem(PROGRAMME, [start |-> Stamp(6, 2, 18), stop |-> Stamp(6, 2, 20), channel |-> ARD],
         <<>>, << Leaf(TITLE, <<"T", "a", "g">>) >>)

CoreItems == {ItemTag, ItemTagDesc, ItemNoStop, ItemNext}

SeqsUpTo(S, n) == UNION {[1..k -> S] : k \in 0..n}

MultiItemRoots == {Elem(TV, NoAttrs, <<>>, items) : items \in SeqsUpTo(CoreItems, MaxItems)}

ParseInputs ==
    {NoneBytes, EmptyBytes, JunkBytes}
        \cup {XmlBytes(r) : r \in SingleItemRoots \cup MultiItemRoots}
        \cup {GzipBytes(r) : r \in MultiItemRoots}

---------------------------------------------------------------------------
(* Idle values of the three parts of the state *)

DtIdle == dt_pc = "idle" /\ dt_in = <<>> /\ dt_out = NoneDt

NoResult == ParseResult(<<>>, <<>>, <<>>, FALSE)

PIdle == p_pc = "idle" /\ p_in = NoneBytes /\ p_res = NoResult

AppIdle ==
    /\ pc = "idle" /\ idx = 0 /\ fetched = <<>> /\ requested = <<>> /\ contrib = <<>>
    /\ warnings = <<>> /\ epg_df = Frame(<<>>) /\ now = NoneDt /\ epg_24 = Frame(<<>>)
    /\ ui_error = FALSE

---------------------------------------------------------------------------
(* SpecDt: one call of parse_xmltv_dt on an attribute value *)

InitDt == dt_pc = "call" /\ dt_in \in DtInputs /\ dt_out = NoneDt /\ PIdle /\ AppIdle

DtCall ==
    /\ dt_pc = "call"
    /\ dt_out' = parse_xmltv_dt(dt_in)
    /\ dt_pc' = "done"
    /\ UNCHANGED <<dt_in, pvars, appvars>>

NextDt == DtCall

SpecDt == InitDt /\ [][NextDt]_vars

---------------------------------------------------------------------------
(* SpecParse: one call of parse_xmltv_programs on document bytes *)

InitParse == p_pc = "call" /\ p_in \in ParseInputs /\ p_res = NoResult /\ DtIdle /\ AppIdle

ParseCall ==
    /\ p_pc = "call"
    /\ p_res' = parse_xmltv_programs(p_in)
    /\ p_pc' = "done"
    /\ UNCHANGED <<p_in, dtvars, appvars>>

NextParse == ParseCall

SpecParse == InitParse /\ [][NextParse]_vars

---------------------------------------------------------------------------
(* Spec: the entertainment tab.  A click runs load_epg_all over the         *)
(* network's answers, reads the clock and filters; the next run of the     *)
(* script starts from nothing.                                             *)

DocA == Elem(TV, NoAttrs, <<>>, <<ItemTag, ItemNext>>)
DocB == Elem(TV, NoAttrs, <<>>, <<ItemTagDesc, ItemNoStop, Elem(GROUP, NoAttrs, <<>>, <<GoodProg>>)>>)

Responses == {
    Failure("Timeout"), Failure("HTTPError"), Failure("ConnectionError"),
    Answer(EmptyBytes), Answer(JunkBytes),
    Answer(XmlBytes(DocA)), Answer(XmlBytes(DocB)), Answer(GzipBytes(DocA)) }

\* clock readings around the two starts of DocA, which lie 24 hours apart
FirstStart == UtcSeconds(Naive(BaseYear, 6, 1, 18, 0, 0))
NowInstants == {FirstStart + d : d \in {-86401, -86400, -1, 0, 1, 86400, 86401}}
Nows == {astimezone(BaseYear, t) : t \in NowInstants}

Init == AppIdle /\ DtIdle /\ PIdle

\* Line 285-287 and 164: the button is pressed, load_epg_all starts with no rows.
Click ==
    /\ pc = "idle"
    /\ pc' = "loop" /\ idx' = 1
    /\ UNCHANGED <<fetched, requested, contrib, warnings, epg_df, now, epg_24, ui_error>>
    /\ UNCHANGED <<dtvars, pvars>>

\* Lines 166-170 for what safe_request_bytes returned: nothing to add when
\* nothing came, else the parsed rows
Extended(got) ==
    IF got.raised THEN ParseResult(<<>>, got.warnings, <<>>, TRUE)
    ELSE IF Falsy(got.ret) THEN ParseResult(<<>>, got.warnings, <<>>, FALSE)
    ELSE [parse_xmltv_programs(got.ret) EXCEPT !.warnings = got.warnings \o @]

\* Lines 165-170, one iteration: fetch the source, skip it when nothing came,
\* else parse and extend.  An exception leaving a call ends the handler in
\* its except branch (lines 314-316).
LoadStep ==
    /\ pc = "loop" /\ idx <= Len(EPG_SOURCES)
    /\ \E resp \in Responses :
         \E o \in {Extended(safe_request_bytes(EPG_SOURCES[idx], resp))} :
            /\ fetched' = Append(fetched, resp)
            /\ requested' = Append(requested, EPG_SOURCES[idx])
            /\ warnings' = warnings \o o.warnings
            /\ contrib' = IF o.raised THEN contrib ELSE Append(contrib, o.out)
            /\ pc' = IF o.raised THEN "shown" ELSE "loop"
            /\ ui_error' = o.raised
            /\ idx' = IF o.raised THEN idx ELSE idx + 1
    /\ UNCHANGED <<epg_df, now, epg_24>>
    /\ UNCHANGED <<dtvars, pvars>>

\* Lines 172-178: load_epg_all returns its frame.
LoadReturn ==
    /\ pc = "loop" /\ idx > Len(EPG_SOURCES)
    /\ epg_df' = LoadResult(Flatten(contrib))
    /\ pc' = "loaded"
    /\ UNCHANGED <<idx, fetched, requested, contrib, warnings, now, epg_24, ui_error>>
    /\ UNCHANGED <<dtvars, pvars>>

\* Lines 289-297: the clock is read and the frame filtered to the window.
TabEntWindow ==
    /\ pc = "loaded"
    /\ \E t \in Nows :
         LET noStart == ~Contains(epg_df.columns, "start")
             df == IF noStart THEN Frame(<<>>) ELSE epg_df
         IN /\ warnings' = warnings \o
                 (IF noStart THEN << <<"EPG liefert keine Startzeiten.">> >> ELSE <<>>)
            /\ epg_df' = df /\ now' = t /\ epg_24' = Window(df, t)
    /\ pc' = "shown"
    /\ UNCHANGED <<idx, fetched, requested, contrib, ui_error>>
    /\ UNCHANGED <<dtvars, pvars>>

\* the script runs again: nothing is kept between runs
Rerun ==
    /\ pc = "shown"
    /\ pc' = "idle" /\ idx' = 0 /\ fetched' = <<>> /\ requested' = <<>> /\ contrib' = <<>>
    /\ warnings' = <<>> /\ epg_df' = Frame(<<>>) /\ now' = NoneDt /\ epg_24' = Frame(<<>>)
    /\ ui_error' = FALSE
    /\ UNCHANGED <<dtvars, pvars>>

Next == Click \/ LoadStep \/ LoadReturn \/ TabEntWindow \/ Rerun

Spec == Init /\ [][Next]_vars

---------------------------------------------------------------------------
(* What the properties are stated with: the calendar counted day by day,   *)
(* the local name of a tag, the elements of the parsed document.           *)

RECURSIVE DaysBeforeYear(_)
DaysBeforeYear(y) ==
    IF y <= 1970 THEN 0
    ELSE DaysBeforeYear(y - 1) + (IF IsLeap(y - 1) THEN 366 ELSE 365)

RECURSIVE DaysBeforeMonth(_, _)
DaysBeforeMonth(y, m) ==
    IF m <= 1 THEN 0 ELSE DaysBeforeMonth(y, m - 1) + DaysInMonth(y, m - 1)

\* the UTC instant the fields of n denote
InstantOf(n) ==
    (DaysBeforeYear(n.Y) + DaysBeforeMonth(n.Y, n.m) + n.d - 1) * 86400
        + n.H * 3600 + n.M * 60 + n.S

\* the last Sunday of a 31-day month (1970-01-01 was a Thursday)
SundayClosing(y, m) ==
    CHOOSE d \in 25..31 : (DaysBeforeYear(y) + DaysBeforeMonth(y, m) + d - 1 + 4) % 7 = 0

Before(a, b) ==
    \/ a[1] < b[1]
    \/ a[1] = b[1] /\ a[2] < b[2]
    \/ a[1] = b[1] /\ a[2] = b[2] /\ a[3] < b[3]

\* summer time is in force in Vienna at the UTC fields of n
SummerTime(n) ==
    /\ ~Before(<<n.m, n.d, n.H>>, <<3, SundayClosing(n.Y, 3), 1>>)
    /\ Before(<<n.m, n.d, n.H>>, <<10, SundayClosing(n.Y, 10), 1>>)

\* the tag without its {namespace}
LocalName(tag) ==
    IF tag # <<>> /\ Head(tag) = "{" /\ Contains(tag, "}")
    THEN Suffix(tag, CHOOSE i \in 1..Len(tag) : tag[i] = "}" /\ \A j \in 1..(i - 1) : tag[j] # "}")
    ELSE tag

\* the document as the parser sees it once a parse has succeeded
ParsedDoc == RemoveBad(p_in.root)

Parsable(raw) == parse_xmltv_dt(raw).ok

BothParsable(e) ==
    /\ Parsable(AttrOr(e.attrib, "start", "from"))
    /\ Parsable(AttrOr(e.attrib, "stop", "to"))

\* the programme elements found that have a parsable start and stop
AdmittedProgs == SelectSeq(FindAllProgramme(ParsedDoc), BothParsable)

\* the stripped text of the first element of cs whose local name ends in
\* "title" whatever its case, "" if there is none
RECURSIVE FirstTitleLike(_)
FirstTitleLike(cs) ==
    IF cs = <<>> THEN <<>>
    ELSE IF EndsWith(Lower(LocalName(Head(cs).tag)), TITLE) THEN Strip(Head(cs).text)
    ELSE FirstTitleLike(Tail(cs))

\* the stripped text of the first element of cs named exactly title, and if
\* there is none of the first whose name ends in "title"
RECURSIVE FirstExactTitle(_, _)
FirstExactTitle(cs, all) ==
    IF cs = <<>> THEN FirstTitleLike(all)
    ELSE IF Head(cs).tag = TITLE THEN Strip(Head(cs).text)
    ELSE FirstExactTitle(Tail(cs), all)

---------------------------------------------------------------------------
(* Properties of parse_xmltv_dt, checked under SpecDt *)

---------------------------------------------------------------------------
(* Properties of parse_xmltv_programs, checked under SpecParse *)

\* C1: every record returned has a start and an end that were parsed and
\* converted to the target zone, and the records are as many as the programme
\* elements found whose start and stop (after the from/to fallback) both
\* parse: an element with a missing or unparsable one contributes nothing.
C1_BothInstantsOrNothing ==
    p_pc = "done" =>
        /\ \A i \in 1..Len(p_res.out) :
              /\ p_res.out[i].start.ok /\ p_res.out[i].start.off \in {3600, 7200}
              /\ p_res.out[i].end.ok /\ p_res.out[i].end.off \in {3600, 7200}
        /\ p_in.kind = "xml" => Len(p_res.out) = Len(AdmittedProgs)
        /\ p_in.kind = "xml" =>
              Len(p_res.out) <= Cardinality({i \in 1..Len(FindAllProgramme(ParsedDoc)) :
                    /\ AttrOr(FindAllProgramme(ParsedDoc)[i].attrib, "start", "from") # <<>>
                    /\ AttrOr(FindAllProgramme(ParsedDoc)[i].attrib, "stop", "to") # <<>>})

\* C1 witness: a document with an entry that is kept and one that is dropped.
C1_Witness ==
    /\ p_pc = "done" /\ p_in.kind = "xml"
    /\ Len(p_res.out) >= 1
    /\ Len(p_res.out) < Len(FindAllProgramme(ParsedDoc))

\* C2: an entry whose start or stop attribute has fewer than 14 characters is
\* not in the output: the records are at most as many as the programme
\* elements found whose start and stop both have 14 characters or more.
C2_ShortStampExcluded ==
    p_pc = "done" /\ p_in.kind = "xml" =>
        Len(p_res.out) <= Cardinality({i \in 1..Len(FindAllProgramme(ParsedDoc)) :
            /\ Len(AttrOr(FindAllProgramme(ParsedDoc)[i].attrib, "start", "from")) >= CoreLen
            /\ Len(AttrOr(FindAllProgramme(ParsedDoc)[i].attrib, "stop", "to")) >= CoreLen})

\* C5: parse_xmltv_programs never raises; None and empty bytes give no
\* records and no parse is attempted; bytes that neither parse fail on give no
\* records and one warning; the permissive parse is attempted exactly when
\* the direct parse has failed.
C5_NeverRaises ==
    p_pc = "done" =>
        /\ ~p_res.raised
        /\ p_in.kind \in {"none", "empty"} =>
              p_res.out = <<>> /\ p_res.attempts = <<>> /\ p_res.warnings = <<>>
        /\ p_in.kind \in {"junk", "gzip"} =>
              /\ p_res.out = <<>> /\ p_res.warnings = <<"XML parsing failed.">>
              /\ p_res.attempts = <<"direct", "permissive">>
        /\ p_in.kind = "xml" =>
              /\ p_res.warnings = <<>>
              /\ p_res.attempts = IF HasBad(p_in.root) THEN <<"direct", "permissive">>
                                  ELSE <<"direct">>

\* C5 witness: both parses have failed on bytes that are no markup.
C5_Witness ==
    /\ p_pc = "done" /\ p_in.kind = "junk"
    /\ p_res.warnings # <<>> /\ p_res.out = <<>>

\* C7 as claimed: the title of every record is the stripped text of the first
\* child, in document order, whose local name ends in "title" whatever its
\* case, also when a sub-title precedes the title.
C7_FirstTitleLikeChild ==
    p_pc = "done" /\ p_in.kind = "xml" =>
        \A i \in 1..Len(p_res.out) :
            i <= Len(AdmittedProgs) =>
                p_res.out[i].title = FirstTitleLike(AdmittedProgs[i].children)

\* C7 amended: the title of every record is the stripped text of the first
\* child whose tag is exactly title and, only if there is none, of the first
\* child in document order whose tag ends in "title" whatever its case; the
\* empty string if there is no such child.
C7_ExactTitleFirst ==
    p_pc = "done" /\ p_in.kind = "xml" =>
        /\ Len(p_res.out) = Len(AdmittedProgs)
        /\ \A i \in 1..Len(p_res.out) :
              p_res.out[i].title =
                  FirstExactTitle(AdmittedProgs[i].children, AdmittedProgs[i].children)

\* C7 witness: an admitted entry whose sub-title precedes its title.
C7_Witness ==
    /\ p_pc = "done" /\ p_in.kind = "xml"
    /\ Len(p_res.out) = 1 /\ Len(AdmittedProgs) = 1
    /\ Len(AdmittedProgs[1].children) = 2
    /\ AdmittedProgs[1].children[1].tag = SUBTITLE
    /\ AdmittedProgs[1].children[2].tag = TITLE
    /\ p_res.out[1].title = <<"N", "e", "w", "s">>

\* C9: every programme element of the document with a parsable start and
\* stop gives exactly one record, at any depth and also with a namespace on
\* its own tag.
C9_EveryProgrammeElement ==
    p_pc = "done" /\ p_in.kind = "xml" =>
        Len(p_res.out) =
            Len(SelectSeq(Descendants(ParsedDoc),
                          LAMBDA e : LocalName(e.tag) = PROGRAMME /\ BothParsable(e)))

---------------------------------------------------------------------------
(* Properties of load_epg_all and of the window, checked under Spec *)

LoadedRows == Flatten(contrib)

Matches(rs, r) == {j \in 1..Len(rs) : SameKey(rs[j], r)}

\* C3: whichever sources fail, load_epg_all raises nothing, asks every source
\* in order, and its frame holds exactly one record for every entry parsed
\* from a source that answered; when all fail it is the empty frame with the
\* five columns.
C3_FailedSourcesSkipped ==
    pc \in {"loaded", "shown"} =>
        /\ ~ui_error
        /\ requested = EPG_SOURCES
        /\ Len(fetched) = Len(EPG_SOURCES)
        /\ \A i \in 1..Len(fetched) :
              fetched[i].ok =>
                  \A r \in {parse_xmltv_programs(fetched[i].content).out[k] :
                               k \in 1..Len(parse_xmltv_programs(fetched[i].content).out)} :
                      Cardinality(Matches(epg_df.rows, r)) = 1
        /\ (\A i \in 1..Len(fetched) : ~fetched[i].ok) =>
              epg_df = [columns |-> <<"title", "description", "channel", "start", "end">>,
                        rows |-> <<>>]

\* C3 witness: the first source failed, a later one answered with entries,
\* and they are in the frame.
C3_Witness ==
    /\ pc = "loaded"
    /\ ~fetched[1].ok /\ fetched[3].ok
    /\ Len(epg_df.rows) >= 2

\* C4: no two records of the frame agree on title, channel and start, every
\* (title, channel, start) among the parsed entries is in it exactly once, and
\* every record of it is one of the parsed entries.
C4_OneRecordPerKey ==
    pc \in {"loaded", "shown"} =>
        /\ \A i, j \in 1..Len(epg_df.rows) :
              i # j => ~SameKey(epg_df.rows[i], epg_df.rows[j])
        /\ \A k \in 1..Len(LoadedRows) :
              Cardinality(Matches(epg_df.rows, LoadedRows[k])) = 1
        /\ \A j \in 1..Len(epg_df.rows) :
              \E k \in 1..Len(LoadedRows) : LoadedRows[k] = epg_df.rows[j]

\* C4 witness: two parsed entries differ in the description only and the
\* frame holds fewer records than were parsed.
C4_Witness ==
    /\ pc = "loaded"
    /\ \E i, j \in 1..Len(LoadedRows) :
          /\ SameKey(LoadedRows[i], LoadedRows[j])
          /\ LoadedRows[i].description # LoadedRows[j].description
    /\ Len(epg_df.rows) < Len(LoadedRows)

\* C6: a source that delivers a document in a gzip envelope contributes the
\* records the same document contributes when delivered as it is.
C6_GzipSameAsPlain ==
    pc \in {"loaded", "shown"} =>
        \A i \in 1..Len(contrib) :
            fetched[i].ok /\ fetched[i].content.kind = "gzip" =>
                contrib[i] = parse_xmltv_programs(XmlBytes(fetched[i].content.root)).out

\* C10: the window keeps exactly the records of the deduplicated frame whose
\* start lies in [now, now + 24 hours], both ends included, in their order.
C10_ClosedWindow ==
    pc = "shown" /\ ~ui_error =>
        /\ epg_df = LoadResult(LoadedRows)
        /\ epg_24.columns = epg_df.columns
        /\ epg_24.rows =
              SelectSeq(epg_df.rows,
                        LAMBDA r : /\ now.local - now.off <= r.start.local - r.start.off
                                   /\ r.start.local - r.start.off <= now.local - now.off + 86400)

\* C10 witness: a record that starts exactly 24 hours after now is shown and
\* another record is filtered out.
C10_Witness ==
    /\ pc = "shown" /\ ~ui_error
    /\ \E j \in 1..Len(epg_24.rows) :
          epg_24.rows[j].start.local - epg_24.rows[j].start.off = now.local - now.off + 86400
    /\ Len(epg_24.rows) < Len(epg_df.rows)

=============================================================================
